---- MODULE Spec2Model ----
(***************************************************************************)
(* Model of amass-mcp/server.py: the `amass` tool of the FastMCP server.   *)
(* One invocation validates its request, builds the argument vector,       *)
(* prints it, runs the binary with subprocess.run(timeout=300) and maps    *)
(* the outcome to a string.  Texts are TLA+ strings, built with \o exactly *)
(* as the f-strings of the source build them.                              *)
(***************************************************************************)
EXTENDS Integers, Sequences, FiniteSets, TLC

(* ------------------------------ bounds --------------------------------- *)
\* number of invocations that may be in flight together
NumCalls == 2
\* largest exit code the child is taken to return
MaxExit == 2

Calls == 1..NumCalls
\* the invocation of the sequential specification
Solo == {1}

(* ------------------- Optional[...] parameters -------------------------- *)
\* Optional[T]: None is <<>>, a supplied value v is <<v>>
None == << >>
Some(v) == << v >>

\* Python truthiness of an Optional[str]: neither None nor ""
TruthyStr(x) == x # None /\ x[1] # ""
\* Python truthiness of an Optional[bool]: neither None nor False
TruthyBool(x) == x # None /\ x[1]

(* ------------------------- request values ------------------------------ *)
Subcommands == {"enum", "intel", "scan"}
Domains == {None, Some(""), Some("a.com")}
Organizations == {None, Some(""), Some("Org"), Some("-d")}
Wordlists == {None, Some(""), Some("w.txt")}
OptBools == {None, Some(FALSE), Some(TRUE)}
EnumTypes == {None, Some("active"), Some("passive")}

Requests ==
  [ subcommand : Subcommands,
    domain : Domains,
    intel_whois : OptBools,
    intel_organization : Organizations,
    enum_type : EnumTypes,
    enum_brute : OptBools,
    enum_brute_wordlist : Wordlists ]

NoRequest ==
  [ subcommand |-> "", domain |-> None, intel_whois |-> None,
    intel_organization |-> None, enum_type |-> None, enum_brute |-> None,
    enum_brute_wordlist |-> None ]

\* the requests of the concurrent specification: one per validation outcome
\* and per mode, with differing argument vectors
ConcRequests ==
  { [NoRequest EXCEPT !.subcommand = "scan", !.domain = Some("a.com")],
    [NoRequest EXCEPT !.subcommand = "enum", !.domain = Some("a.com"),
                      !.enum_type = Some("passive")],
    [NoRequest EXCEPT !.subcommand = "intel", !.intel_organization = Some("Org"),
                      !.intel_whois = Some(TRUE)],
    [NoRequest EXCEPT !.subcommand = "intel", !.domain = Some("a.com")] }

(* --------------------------- fixed texts ------------------------------- *)
MissingDomainMsg == "Error: Domain parameter is required for 'enum' subcommand"
MissingTargetMsg ==
  "Error: Either domain or organization parameter is required for 'intel' subcommand"
WhoisRequiredMsg == "Error: For domain parameter, whois is required"
NoOutputMsg == "Amass completed successfully with no output"
TimeoutMsg == "Error: Amass command timed out after 5 minutes"
NotFoundMsg == "Error: Amass binary not found. Please ensure amass is installed."

InvalidSubcommandMsg(subcommand) ==
  "Error: subcommand must be 'enum' or 'intel', got '" \o subcommand \o "'"

(* ------------------ validation and argument building ------------------- *)
\* line 36: subcommand not in ["enum", "intel"]
SubcommandOk(subcommand) == subcommand \in {"enum", "intel"}

\* lines 43-44: the early return of the enum branch (None: no early return)
EnumError(r) ==
  IF ~ TruthyStr(r.domain) THEN Some(MissingDomainMsg) ELSE None

\* the -w pair is appended although enum_brute is off
EnumArgsWordlistAlways(r) ==
  <<"-d", r.domain[1]>>
    \o (IF r.enum_type = Some("passive") THEN <<"-passive">> ELSE << >>)
    \o (IF TruthyBool(r.enum_brute) THEN <<"-brute">> ELSE << >>)
    \o (IF TruthyStr(r.enum_brute_wordlist)
          THEN <<"-w", r.enum_brute_wordlist[1]>> ELSE << >>)

\* lines 46-57: what the enum branch appends to ["amass", "enum"]
EnumArgs(r) ==
  <<"-d", r.domain[1]>>
    \o (IF r.enum_type = Some("passive") THEN <<"-passive">> ELSE << >>)
    \o (IF TruthyBool(r.enum_brute)
          THEN <<"-brute">>
                 \o (IF TruthyStr(r.enum_brute_wordlist)
                       THEN <<"-w", r.enum_brute_wordlist[1]>> ELSE << >>)
          ELSE << >>)

\* the whois rule is skipped
IntelErrorNoWhoisRule(r) ==
  IF ~ TruthyStr(r.domain) /\ ~ TruthyStr(r.intel_organization)
    THEN Some(MissingTargetMsg)
    ELSE None

\* the whois rule is applied only when no organization is given
IntelErrorWhoisUnlessOrg(r) ==
  IF ~ TruthyStr(r.domain) /\ ~ TruthyStr(r.intel_organization)
    THEN Some(MissingTargetMsg)
    ELSE IF TruthyStr(r.domain) /\ ~ TruthyBool(r.intel_whois)
              /\ ~ TruthyStr(r.intel_organization)
           THEN Some(WhoisRequiredMsg)
           ELSE None

\* lines 61-67: the early returns of the intel branch (None: no early return)
IntelError(r) ==
  IF ~ TruthyStr(r.domain) /\ ~ TruthyStr(r.intel_organization)
    THEN Some(MissingTargetMsg)
    ELSE IF TruthyStr(r.domain) /\ ~ TruthyBool(r.intel_whois)
           THEN Some(WhoisRequiredMsg)
           ELSE None

\* -whois is appended before the organization
IntelArgsWhoisFirst(r) ==
  (IF TruthyStr(r.domain) THEN <<"-d", r.domain[1]>> ELSE << >>)
    \o (IF TruthyBool(r.intel_whois) THEN <<"-whois">> ELSE << >>)
    \o (IF TruthyStr(r.intel_organization)
          THEN <<"-org", r.intel_organization[1]>> ELSE << >>)

\* lines 65-76: what the intel branch appends to ["amass", "intel"]
IntelArgs(r) ==
  (IF TruthyStr(r.domain) THEN <<"-d", r.domain[1]>> ELSE << >>)
    \o (IF TruthyStr(r.intel_organization)
          THEN <<"-org", r.intel_organization[1]>> ELSE << >>)
    \o (IF TruthyBool(r.intel_whois) THEN <<"-whois">> ELSE << >>)

\* lines 36-76: the text returned before execution, None when none is
EarlyReturn(r) ==
  IF ~ SubcommandOk(r.subcommand) THEN Some(InvalidSubcommandMsg(r.subcommand))
  ELSE IF r.subcommand = "enum" THEN EnumError(r)
  ELSE IntelError(r)

\* lines 39-76: amass_args when no early return is taken
BuildArgs(r) ==
  <<"amass", r.subcommand>>
    \o (IF r.subcommand = "enum" THEN EnumArgs(r) ELSE IntelArgs(r))

\* str.join: ' '.join(args)
RECURSIVE Join(_)
Join(args) ==
  IF args = << >> THEN ""
  ELSE IF Len(args) = 1 THEN args[1]
  ELSE args[1] \o " " \o Join(Tail(args))

\* line 79: the line written to standard output
ExecutingLine(args) == "Executing: " \o Join(args)

(* ---------------------------- result mapping --------------------------- *)
\* the Stderr section is appended even when standard error is empty
FormatOutputAlwaysStderr(stdout, stderr) == stdout \o "\nStderr: " \o stderr

\* lines 89-91: output = result.stdout, plus the Stderr section if any
FormatOutput(stdout, stderr) ==
  stdout \o (IF stderr # "" THEN "\nStderr: " \o stderr ELSE "")

\* the fallback text is chosen on standard output alone
MapResultStdoutOnly(returncode, stdout, stderr) ==
  IF returncode # 0
    THEN "Amass exited with code " \o ToString(returncode) \o ". Output: "
           \o FormatOutput(stdout, stderr)
    ELSE IF stdout # "" THEN FormatOutput(stdout, stderr) ELSE NoOutputMsg

\* lines 89-96: the text returned when subprocess.run returns
MapResult(returncode, stdout, stderr) ==
  LET output == FormatOutput(stdout, stderr)
  IN  IF returncode # 0
        THEN "Amass exited with code " \o ToString(returncode) \o ". Output: "
               \o output
        ELSE IF output # "" THEN output ELSE NoOutputMsg

\* the handler returns what the child had written so far
OnTimeoutWithPartial(stdout, stderr) ==
  TimeoutMsg \o FormatOutput(stdout, stderr)

\* lines 98-99: except subprocess.TimeoutExpired; stdout and stderr are what
\* the exception carries, which the handler does not read
OnTimeout(stdout, stderr) == TimeoutMsg

\* lines 100-101: except FileNotFoundError
OnNotFound == NotFoundMsg

\* lines 102-103: except Exception as e
OnException(desc) == "Error executing amass: " \o desc

(* ------------------------- the child process --------------------------- *)
ExitCodes == (-1)..MaxExit
\* what the child may have written, in full or before the timeout
Stdouts == {"", "sub.a.com"}
Stderrs == {"", "warn"}
\* str(e) of a failure to spawn other than FileNotFoundError
SpawnErrors == {"[Errno 13] Permission denied: 'amass'"}
\* str(e) of a failure while communicating (text=True decodes the pipes)
CommErrors == {"'utf-8' codec can't decode byte 0xff in position 0: invalid start byte"}

\* the timeout leaves the child alive
ChildAfterTimeoutLeaked == "running"

\* lines 82-87: subprocess.run kills the child and waits for it when the
\* timeout expires, before TimeoutExpired reaches the handler
ChildAfterTimeout == "killed"

NoOutcome ==
  [ kind |-> "none", returncode |-> 0, stdout |-> "", stderr |-> "", desc |-> "" ]

(* ------------------------------- state --------------------------------- *)
VARIABLES
  pc,          \* per call: idle, print, run, wait, returned, raised
  req,         \* per call: the request it was invoked with
  amass_args,  \* per frame: the local list amass_args
  child,       \* per call: none, running, exited, killed
  nspawn,      \* per call: number of child processes started
  argv,        \* per call: the argument vector its child was started with
  outcome,     \* per call: how subprocess.run ended
  result,      \* per call: the text returned to the caller
  log          \* the lines written to the server's standard output

vars == << pc, req, amass_args, child, nspawn, argv, outcome, result, log >>

\* every call shares one list
SharedFrame(c) == 1

\* line 39: amass_args is a local of the call, a new list per invocation
Frame(c) == c

Init ==
  /\ pc = [c \in Calls |-> "idle"]
  /\ req = [c \in Calls |-> NoRequest]
  /\ amass_args = [c \in Calls |-> << >>]
  /\ child = [c \in Calls |-> "none"]
  /\ nspawn = [c \in Calls |-> 0]
  /\ argv = [c \in Calls |-> << >>]
  /\ outcome = [c \in Calls |-> NoOutcome]
  /\ result = [c \in Calls |-> ""]
  /\ log = << >>

\* lines 36-76: validation, then the argument list
Invoke(c, r) ==
  /\ pc[c] = "idle"
  /\ req' = [req EXCEPT ![c] = r]
  /\ IF EarlyReturn(r) # None
       THEN /\ pc' = [pc EXCEPT ![c] = "returned"]
            /\ result' = [result EXCEPT ![c] = EarlyReturn(r)[1]]
            /\ UNCHANGED amass_args
       ELSE /\ pc' = [pc EXCEPT ![c] = "print"]
            /\ amass_args' = [amass_args EXCEPT ![Frame(c)] = BuildArgs(r)]
            /\ UNCHANGED result
  /\ UNCHANGED << child, nspawn, argv, outcome, log >>

\* line 79: print(f"Executing: ...") succeeds
LogArgs(c) ==
  /\ pc[c] = "print"
  /\ log' = Append(log, ExecutingLine(amass_args[Frame(c)]))
  /\ pc' = [pc EXCEPT ![c] = "run"]
  /\ UNCHANGED << req, amass_args, child, nspawn, argv, outcome, result >>

\* line 79: print raises (standard output closed, or unable to encode the
\* line); the statement is outside the try block, the exception leaves amass
LogRaises(c) ==
  /\ pc[c] = "print"
  /\ pc' = [pc EXCEPT ![c] = "raised"]
  /\ UNCHANGED << req, amass_args, child, nspawn, argv, outcome, result, log >>

\* lines 82-87: subprocess.run starts the child
Spawn(c) ==
  /\ pc[c] = "run"
  /\ child' = [child EXCEPT ![c] = "running"]
  /\ nspawn' = [nspawn EXCEPT ![c] = @ + 1]
  /\ argv' = [argv EXCEPT ![c] = amass_args[Frame(c)]]
  /\ pc' = [pc EXCEPT ![c] = "wait"]
  /\ UNCHANGED << req, amass_args, outcome, result, log >>

\* lines 82, 100-101: the binary is not on the path
SpawnNotFound(c) ==
  /\ pc[c] = "run"
  /\ outcome' = [outcome EXCEPT ![c] = [NoOutcome EXCEPT !.kind = "notfound"]]
  /\ result' = [result EXCEPT ![c] = OnNotFound]
  /\ pc' = [pc EXCEPT ![c] = "returned"]
  /\ UNCHANGED << req, amass_args, child, nspawn, argv, log >>

\* lines 82, 102-103: any other failure to start the child
SpawnFails(c, desc) ==
  /\ pc[c] = "run"
  /\ outcome' = [outcome EXCEPT ![c] =
                   [NoOutcome EXCEPT !.kind = "spawnerror", !.desc = desc]]
  /\ result' = [result EXCEPT ![c] = OnException(desc)]
  /\ pc' = [pc EXCEPT ![c] = "returned"]
  /\ UNCHANGED << req, amass_args, child, nspawn, argv, log >>

\* lines 82-96: the child exits within the timeout and its outcome is mapped
ChildExits(c, returncode, stdout, stderr) ==
  /\ pc[c] = "wait"
  /\ child[c] = "running"
  /\ child' = [child EXCEPT ![c] = "exited"]
  /\ outcome' = [outcome EXCEPT ![c] =
                   [ kind |-> "exit", returncode |-> returncode,
                     stdout |-> stdout, stderr |-> stderr, desc |-> "" ]]
  /\ result' = [result EXCEPT ![c] = MapResult(returncode, stdout, stderr)]
  /\ pc' = [pc EXCEPT ![c] = "returned"]
  /\ UNCHANGED << req, amass_args, nspawn, argv, log >>

\* lines 82-87, 98-99: the timeout expires while the child is running;
\* stdout and stderr are what it had written until then
TimeoutExpired(c, stdout, stderr) ==
  /\ pc[c] = "wait"
  /\ child[c] = "running"
  /\ child' = [child EXCEPT ![c] = ChildAfterTimeout]
  /\ outcome' = [outcome EXCEPT ![c] =
                   [ kind |-> "timeout", returncode |-> 0,
                     stdout |-> stdout, stderr |-> stderr, desc |-> "" ]]
  /\ result' = [result EXCEPT ![c] = OnTimeout(stdout, stderr)]
  /\ pc' = [pc EXCEPT ![c] = "returned"]
  /\ UNCHANGED << req, amass_args, nspawn, argv, log >>

\* lines 82-87, 102-103: communicating with the child fails; subprocess.run
\* kills the child and waits for it before the exception reaches the handler
CommunicateFails(c, desc) ==
  /\ pc[c] = "wait"
  /\ child[c] = "running"
  /\ child' = [child EXCEPT ![c] = "killed"]
  /\ outcome' = [outcome EXCEPT ![c] =
                   [NoOutcome EXCEPT !.kind = "commerror", !.desc = desc]]
  /\ result' = [result EXCEPT ![c] = OnException(desc)]
  /\ pc' = [pc EXCEPT ![c] = "returned"]
  /\ UNCHANGED << req, amass_args, nspawn, argv, log >>

\* one invocation, every request
Next ==
  \E c \in Solo :
    \/ \E r \in Requests : Invoke(c, r)
    \/ LogArgs(c)
    \/ LogRaises(c)
    \/ Spawn(c)
    \/ SpawnNotFound(c)
    \/ \E desc \in SpawnErrors : SpawnFails(c, desc)
    \/ \E returncode \in ExitCodes, stdout \in Stdouts, stderr \in Stderrs :
         ChildExits(c, returncode, stdout, stderr)
    \/ \E stdout \in Stdouts, stderr \in Stderrs : TimeoutExpired(c, stdout, stderr)
    \/ \E desc \in CommErrors : CommunicateFails(c, desc)

Spec == Init /\ [][Next]_vars

\* concurrent invocations, interleaved step by step
NextConc ==
  \E c \in Calls :
    \/ \E r \in ConcRequests : Invoke(c, r)
    \/ LogArgs(c)
    \/ LogRaises(c)
    \/ Spawn(c)
    \/ SpawnNotFound(c)
    \/ \E desc \in SpawnErrors : SpawnFails(c, desc)
    \/ \E returncode \in ExitCodes, stdout \in Stdouts, stderr \in Stderrs :
         ChildExits(c, returncode, stdout, stderr)
    \/ \E stdout \in Stdouts, stderr \in Stderrs : TimeoutExpired(c, stdout, stderr)
    \/ \E desc \in CommErrors : CommunicateFails(c, desc)

SpecConc == Init /\ [][NextConc]_vars

TypeOK ==
  /\ pc \in [Calls -> {"idle", "print", "run", "wait", "returned", "raised"}]
  /\ child \in [Calls -> {"none", "running", "exited", "killed"}]
  /\ nspawn \in [Calls -> 0..1]

(* ------------------------ vocabulary of the claims --------------------- *)
\* t occurs in s as a contiguous piece of text
Contains(s, t) ==
  \E i \in 1..(Len(s) - Len(t) + 1) : SubSeq(s, i, i + Len(t) - 1) = t

\* the validation rules as the specification words them; a string parameter
\* is present when it is neither None nor empty
Valid(r) ==
  /\ r.subcommand \in {"enum", "intel"}
  /\ r.subcommand = "enum" => TruthyStr(r.domain)
  /\ r.subcommand = "intel" =>
       /\ TruthyStr(r.domain) \/ TruthyStr(r.intel_organization)
       /\ TruthyStr(r.domain) => TruthyBool(r.intel_whois)

\* call c has passed the logging statement
Logged(c) == pc[c] \in {"run", "wait"} \/ outcome[c].kind # "none"

\* call c has started a child process
Launched(c) == nspawn[c] > 0

\* C1: a child process is started, and the Executing line printed, only for a
\* request that passes every validation rule; a request that violates one has
\* returned with no process started and nothing printed.
C1_LaunchOnlyIfValid ==
  /\ \A c \in Calls :
       /\ (Launched(c) \/ Logged(c) \/ child[c] # "none") => Valid(req[c])
       /\ (pc[c] # "idle" /\ ~ Valid(req[c])) =>
            /\ pc[c] = "returned"
            /\ nspawn[c] = 0
            /\ child[c] = "none"
            /\ argv[c] = << >>
  /\ Len(log) = Cardinality({c \in Calls : Logged(c)})

C1_Witness ==
  \E c \in Calls :
    /\ Launched(c)
    /\ req[c].subcommand = "intel"
    /\ TruthyStr(req[c].domain)
    /\ TruthyBool(req[c].intel_whois)
    /\ Len(log) = 1

\* C2: a request that fails validation returns the message of the first rule
\* it fails: invalid subcommand (naming the value), missing domain for enum,
\* missing target for intel, whois required for intel with a domain, the last
\* whether or not an organization is supplied.
C2_ValidationMessages ==
  \A c \in Calls :
    pc[c] # "idle" =>
      LET r == req[c]
      IN  /\ r.subcommand \notin {"enum", "intel"} =>
                /\ pc[c] = "returned"
                /\ result[c] = "Error: subcommand must be 'enum' or 'intel', got '"
                                 \o r.subcommand \o "'"
          /\ (r.subcommand = "enum" /\ ~ TruthyStr(r.domain)) =>
                pc[c] = "returned" /\ result[c] = MissingDomainMsg
          /\ (r.subcommand = "intel" /\ ~ TruthyStr(r.domain)
                /\ ~ TruthyStr(r.intel_organization)) =>
                pc[c] = "returned" /\ result[c] = MissingTargetMsg
          /\ (r.subcommand = "intel" /\ TruthyStr(r.domain)
                /\ ~ TruthyBool(r.intel_whois)) =>
                pc[c] = "returned" /\ result[c] = WhoisRequiredMsg

C2_Witness ==
  \E c \in Calls :
    /\ pc[c] = "returned"
    /\ req[c].subcommand = "intel"
    /\ TruthyStr(req[c].domain)
    /\ req[c].intel_whois = Some(FALSE)
    /\ TruthyStr(req[c].intel_organization)
    /\ result[c] = WhoisRequiredMsg

\* C3: for a valid enum request the child's argument list is exactly
\* amass enum -d d, then -passive iff enum_type is passive, then -brute iff
\* enum_brute, then -w w iff enum_brute and a wordlist is set; nothing else.
C3_EnumArgv ==
  \A c \in Calls :
    (Launched(c) /\ req[c].subcommand = "enum") =>
      LET r == req[c]
      IN  argv[c] =
            <<"amass", "enum", "-d", r.domain[1]>>
              \o (IF r.enum_type = Some("passive") THEN <<"-passive">> ELSE << >>)
              \o (IF TruthyBool(r.enum_brute) THEN <<"-brute">> ELSE << >>)
              \o (IF TruthyBool(r.enum_brute) /\ TruthyStr(r.enum_brute_wordlist)
                    THEN <<"-w", r.enum_brute_wordlist[1]>> ELSE << >>)

C3_Witness ==
  \E c \in Calls :
    /\ req[c].intel_whois = Some(TRUE)
    /\ TruthyStr(req[c].intel_organization)
    /\ argv[c] = <<"amass", "enum", "-d", "a.com", "-passive", "-brute", "-w", "w.txt">>

\* C4: for a valid intel request the child's argument list is exactly
\* amass intel, then -d d iff a domain is set, then -org o iff an organization
\* is set, then -whois iff intel_whois; when the -d pair is there, so is -whois.
C4_IntelArgv ==
  \A c \in Calls :
    (Launched(c) /\ req[c].subcommand = "intel") =>
      LET r == req[c]
      IN  /\ argv[c] =
               <<"amass", "intel">>
                 \o (IF TruthyStr(r.domain) THEN <<"-d", r.domain[1]>> ELSE << >>)
                 \o (IF TruthyStr(r.intel_organization)
                       THEN <<"-org", r.intel_organization[1]>> ELSE << >>)
                 \o (IF TruthyBool(r.intel_whois) THEN <<"-whois">> ELSE << >>)
          /\ (Len(argv[c]) >= 4 /\ argv[c][3] = "-d") =>
               argv[c][Len(argv[c])] = "-whois"

C4_Witness ==
  \E c \in Calls :
    /\ req[c].enum_brute = Some(TRUE)
    /\ req[c].enum_type = Some("passive")
    /\ argv[c] = <<"amass", "intel", "-d", "a.com", "-org", "Org", "-whois">>

\* C5 as stated: exit code 0 and empty standard output give the fixed
\* no-output message, whatever standard error holds.
C5_NoOutputForAnyStderr ==
  \A c \in Calls :
    (outcome[c].kind = "exit" /\ outcome[c].returncode = 0
       /\ outcome[c].stdout = "") =>
      result[c] = NoOutputMsg

\* C5 amended: exit code 0 and empty standard output give the fixed no-output
\* message when standard error is empty too, and the Stderr section alone
\* when standard error is not empty.
C5_NoOutputWhenBothEmpty ==
  \A c \in Calls :
    (outcome[c].kind = "exit" /\ outcome[c].returncode = 0
       /\ outcome[c].stdout = "") =>
      /\ pc[c] = "returned"
      /\ outcome[c].stderr = "" => result[c] = NoOutputMsg
      /\ outcome[c].stderr # "" => result[c] = "\nStderr: " \o outcome[c].stderr

C5_Witness ==
  \E c \in Calls :
    /\ outcome[c].kind = "exit"
    /\ outcome[c].returncode = 0
    /\ outcome[c].stdout = ""
    /\ outcome[c].stderr = ""
    /\ result[c] = NoOutputMsg

\* C6: when the timeout expires the returned text is exactly the fixed timeout
\* message and holds nothing of what the child wrote before the timeout.
C6_TimeoutMessage ==
  \A c \in Calls :
    outcome[c].kind = "timeout" =>
      /\ pc[c] = "returned"
      /\ result[c] = "Error: Amass command timed out after 5 minutes"
      /\ outcome[c].stdout # "" => ~ Contains(result[c], outcome[c].stdout)
      /\ outcome[c].stderr # "" => ~ Contains(result[c], outcome[c].stderr)

C6_Witness ==
  \E c \in Calls :
    /\ outcome[c].kind = "timeout"
    /\ outcome[c].stdout # ""
    /\ outcome[c].stderr # ""
    /\ result[c] = TimeoutMsg

\* C7 as stated: no step of an invocation, the logging of the argument list
\* included, lets a fault leave amass.
C7_NoFaultEscapes == \A c \in Calls : pc[c] # "raised"

\* C8: a non-zero exit code gives 'Amass exited with code <code>. Output:
\* <stdout>', with '\nStderr: <stderr>' appended iff standard error is not
\* empty; standard output and standard error are in the text in full.
C8_NonZeroExit ==
  \A c \in Calls :
    (outcome[c].kind = "exit" /\ outcome[c].returncode # 0) =>
      LET o == outcome[c]
      IN  /\ pc[c] = "returned"
          /\ result[c] =
               "Amass exited with code " \o ToString(o.returncode)
                 \o ". Output: " \o o.stdout
                 \o (IF o.stderr # "" THEN "\nStderr: " \o o.stderr ELSE "")
          /\ Contains(result[c], o.stdout)
          /\ Contains(result[c], o.stderr)
          /\ Contains(result[c], "\nStderr: ") <=> o.stderr # ""

C8_Witness ==
  \E c \in Calls :
    /\ outcome[c].kind = "exit"
    /\ outcome[c].returncode = 2
    /\ result[c] = "Amass exited with code 2. Output: sub.a.com\nStderr: warn"

\* C9: once an invocation has ended its child is not running: it exited by
\* itself or was killed at the timeout; an invocation starts at most one child.
C9_NoLiveChildAfterReturn ==
  \A c \in Calls :
    /\ nspawn[c] <= 1
    /\ pc[c] \in {"returned", "raised"} =>
         /\ child[c] # "running"
         /\ child[c] = "none" <=> nspawn[c] = 0
         /\ outcome[c].kind = "timeout" => child[c] = "killed"
         /\ outcome[c].kind = "exit" => child[c] = "exited"

C9_Witness ==
  \E c \in Calls :
    /\ pc[c] = "returned"
    /\ outcome[c].kind = "timeout"
    /\ nspawn[c] = 1
    /\ child[c] = "killed"

\* the text a call with request r returns when run alone and its execution
\* ends as o
AloneResult(r, o) ==
  IF EarlyReturn(r) # None THEN EarlyReturn(r)[1]
  ELSE CASE o.kind = "exit" -> MapResult(o.returncode, o.stdout, o.stderr)
         [] o.kind = "timeout" -> OnTimeout(o.stdout, o.stderr)
         [] o.kind = "notfound" -> OnNotFound
         [] OTHER -> OnException(o.desc)

\* C10: under every interleaving of concurrent invocations, the argument list
\* a call passes to its child and the text it returns are those it produces
\* alone, from its own request and its own child's outcome.
C10_Independent ==
  \A c \in Calls :
    /\ Launched(c) => argv[c] = BuildArgs(req[c])
    /\ pc[c] = "returned" => result[c] = AloneResult(req[c], outcome[c])

C10_Witness ==
  \E c, d \in Calls :
    /\ c # d
    /\ pc[c] = "returned" /\ Launched(c)
    /\ pc[d] = "wait"
    /\ argv[c] # argv[d]
    /\ outcome[c].kind = "exit"

====
